---- MODULE Spec2Model ----
(***************************************************************************)
(* Model of the CPU multiplier writer: the engine set_cpu_multiplier as it *)
(* stands in Project/overclock.c (a shared unit loaded by a foreign host)  *)
(* and in Project/zx.c (a command-line program with its own main).         *)
(*                                                                         *)
(* A process is either a host that calls the engine directly, or a run of  *)
(* the zx program.  Every port write and every iopl request is a step of   *)
(* its own, so that runs of several processes interleave at exactly the    *)
(* places where the hardware can observe them.                             *)
(*                                                                         *)
(* Machine words.  TLC integers are 32-bit, so a C unsigned value wider    *)
(* than 31 bits is kept as a little-endian sequence of 16-bit limbs:       *)
(* an unsigned int is <<lo, hi>>, an unsigned long (LP64) is four limbs.   *)
(* A string is the sequence of its character codes.                        *)
(***************************************************************************)
EXTENDS Integers, Sequences, FiniteSets, TLC

VARIABLES
  pc,          \* pc[p]: position of process p
  caller,      \* caller[p]: "main" (a run of zx) or "host" (a foreign caller)
  unit,        \* unit[p]: the source file whose engine p links
  win32,       \* win32[p]: whether the unit was built with _WIN32 defined
  tty,         \* tty[p]: whether stdout of p is a terminal (line buffered)
  args,        \* args[p]: argv[1..] of a zx run, each a sequence of characters
  parsed,      \* parsed[p]: main's locals <<core, multi>> once atoi has run
  core,        \* core[p]: parameter core of the running engine call
  multiplier,  \* multiplier[p]: parameter multiplier of the running engine call
  msr,         \* msr[p]: local unsigned long msr
  value,       \* value[p]: local unsigned long value
  ioplRet,     \* ioplRet[p]: what the kernel answers to iopl(3) in this call
  calls,       \* calls[p]: engine calls p has made so far
  status,      \* status[p]: exit status of p once it has ended, -1 before
  term,        \* term[p]: how p ended: "none", "main_return", "engine_exit"
  stdbuf,      \* stdbuf[p]: lines printf has left in the buffer of stdout
  out,         \* out[p]: the lines that have left p (stdout, stderr, dialogs)
  ports,       \* ports[a]: last value the hardware received at port a
  trace        \* every call, iopl request and port write, in global order

vars == <<pc, caller, unit, win32, tty, args, parsed, core, multiplier, msr,
          value, ioplRet, calls, status, term, stdbuf, out, ports, trace>>

----------------------------------------------------------------------------
(* Bounds of the model *)

\* engine calls one host makes in a row
MaxCalls == 2
\* arguments given to a zx run after the program name
MaxArgs == 3

----------------------------------------------------------------------------
(* Program constants *)

\* overclock.c: #define MSR_OC_BASE 0x199
oc_MSR_OC_BASE == 409
\* overclock.c: #define PORT_PROTECT 0xCF8
oc_PORT_PROTECT == 3320
\* overclock.c: #define PORT_DATA 0xCFC
oc_PORT_DATA == 3324
\* overclock.c: EXIT_FAILURE of <stdlib.h>
EXIT_FAILURE == 1
\* overclock.c: the mask 0xFF and the flag 0x10000 of line 24
oc_MASK == 255
oc_FLAG == 65536
\* zx.c: #define MSR_OC_BASE 0x199
zx_MSR_OC_BASE == 409
\* zx.c: #define PORT_PROTECT 0xCF8
zx_PORT_PROTECT == 3320
\* zx.c: #define PORT_DATA 0xCFC
zx_PORT_DATA == 3324
\* zx.c: the mask 0xFF and the flag 0x10000 of line 11
zx_MASK == 255
zx_FLAG == 65536
\* zx.c: exit(1) in the engine, return 1 in main
zx_EXIT_ENGINE == 1
zx_RETURN_USAGE == 1
zx_RETURN_INVALID == 1
zx_RETURN_OK == 0
\* zx.c: the argument count and the ranges main accepts
zx_ARGC == 3
zx_CORE_MIN == 0
zx_CORE_MAX == 15
zx_MULTI_MIN == 8
zx_MULTI_MAX == 255
\* the level asked of iopl in both files
IOPL_LEVEL == 3

----------------------------------------------------------------------------
(* C integer arithmetic *)

Limb == 2^16

\* the 32-bit two's complement pattern of an int, as <<lo, hi>>
IntBits(n) == <<n % Limb, (n \div Limb) % Limb>>

\* the int a 32-bit pattern stands for
BitsInt(w) ==
  IF w[2] >= 32768 THEN (w[2] - Limb) * Limb + w[1] ELSE w[2] * Limb + w[1]

RECURSIVE And16(_, _, _)
\* bitwise AND of the low k bits of two naturals
And16(a, b, k) ==
  IF k = 0 THEN 0
  ELSE (IF a % 2 = 1 /\ b % 2 = 1 THEN 1 ELSE 0)
       + 2 * And16(a \div 2, b \div 2, k - 1)

RECURSIVE Or16(_, _, _)
\* bitwise OR of the low k bits of two naturals
Or16(a, b, k) ==
  IF k = 0 THEN 0
  ELSE (IF a % 2 = 1 \/ b % 2 = 1 THEN 1 ELSE 0)
       + 2 * Or16(a \div 2, b \div 2, k - 1)

\* the C operator & on two ints
IntAnd(a, b) ==
  LET x == IntBits(a)
      y == IntBits(b)
  IN  BitsInt(<<And16(x[1], y[1], 16), And16(x[2], y[2], 16)>>)

\* the C operator | on two ints
IntOr(a, b) ==
  LET x == IntBits(a)
      y == IntBits(b)
  IN  BitsInt(<<Or16(x[1], y[1], 16), Or16(x[2], y[2], 16)>>)

\* conversion of an int to unsigned long (64 bits): sign extension
ToULong(n) ==
  LET w == IntBits(n)
      s == IF n < 0 THEN Limb - 1 ELSE 0
  IN  <<w[1], w[2], s, s>>

\* sign extension of a 32-bit pattern to 64 bits
SignExtend(w) ==
  LET s == IF w[2] >= 32768 THEN Limb - 1 ELSE 0
  IN  <<w[1], w[2], s, s>>

\* a + b carried out in 32 bits: the pattern, as <<lo, hi>>
Add32(a, b) ==
  LET x == IntBits(a)
      y == IntBits(b)
      lo == x[1] + y[1]
      hi == x[2] + y[2] + (lo \div Limb)
  IN  <<lo % Limb, hi % Limb>>

\* a + b carried out in 64 bits on the sign-extended operands
Add64(a, b) ==
  LET x == ToULong(a)
      y == ToULong(b)
      l1 == x[1] + y[1]
      l2 == x[2] + y[2] + (l1 \div Limb)
      l3 == x[3] + y[3] + (l2 \div Limb)
      l4 == x[4] + y[4] + (l3 \div Limb)
  IN  <<l1 % Limb, l2 % Limb, l3 % Limb, l4 % Limb>>

\* the values an unsigned long can hold after "= a + b" on two ints.  When
\* the sum fits an int there is one.  When it does not, the addition is
\* undefined: a build either adds in 32 bits and then widens, or widens and
\* then adds.
IntSumAsULong(a, b) == {SignExtend(Add32(a, b)), Add64(a, b)}

\* conversion of an unsigned long to the unsigned int outl takes: truncation
ToUInt(ul) == <<ul[1], ul[2]>>

ZeroULong == <<0, 0, 0, 0>>
ZeroUInt == <<0, 0>>

----------------------------------------------------------------------------
(* atoi of <stdlib.h>, on a string given as its character codes *)

\* isspace in the C locale: space, \t, \n, \v, \f, \r
IsSpace(c) == c \in {32, 9, 10, 11, 12, 13}

\* isdigit: '0'..'9'
IsDigit(c) == c \in 48..57

DigitVal(c) == c - 48

RECURSIVE SkipSpace(_)
SkipSpace(s) ==
  IF s # <<>> /\ IsSpace(Head(s)) THEN SkipSpace(Tail(s)) ELSE s

\* the magnitude read so far: its low 64 bits as four limbs, and whether it
\* has passed 2^64 - 1
ZeroMagnitude == [l |-> <<0, 0, 0, 0>>, over |-> FALSE]

\* acc * 10 + d
MulAdd(acc, d) ==
  LET l1 == acc.l[1] * 10 + d
      l2 == acc.l[2] * 10 + (l1 \div Limb)
      l3 == acc.l[3] * 10 + (l2 \div Limb)
      l4 == acc.l[4] * 10 + (l3 \div Limb)
  IN  [l |-> <<l1 % Limb, l2 % Limb, l3 % Limb, l4 % Limb>>,
       over |-> acc.over \/ l4 >= Limb]

RECURSIVE ReadDigits(_, _)
\* the digits at the head of s, accumulated onto acc
ReadDigits(s, acc) ==
  IF s # <<>> /\ IsDigit(Head(s))
  THEN ReadDigits(Tail(s), MulAdd(acc, DigitVal(Head(s))))
  ELSE acc

\* the 32-bit pattern of -x
Neg32(w) ==
  IF w[1] = 0 THEN <<0, (Limb - w[2]) % Limb>>
  ELSE <<Limb - w[1], Limb - 1 - w[2]>>

\* the ints atoi(s) can return.  A value an int holds is returned as it is.
\* For any other value the result is undefined: the library either converts
\* with strtol, which stops at LONG_MAX or LONG_MIN, and keeps the low 32
\* bits, or accumulates in an int that wraps.  The two differ only past the
\* range of long.
atoi(s) ==
  LET t == SkipSpace(s)
      signed == t # <<>> /\ Head(t) \in {43, 45}
      neg == t # <<>> /\ Head(t) = 45
      mag == ReadDigits(IF signed THEN Tail(t) ELSE t, ZeroMagnitude)
      low == <<mag.l[1], mag.l[2]>>
      wrapped == BitsInt(IF neg THEN Neg32(low) ELSE low)
      pastLong == mag.over \/ mag.l[4] >= 32768
      viaStrtol == IF pastLong THEN (IF neg THEN 0 ELSE -1) ELSE wrapped
  IN  {viaStrtol, wrapped}

----------------------------------------------------------------------------
(* The values the engine computes *)

\* variant of oc_value with the mask one bit short (0x7F)
oc_value_mask7(m) == ToULong(IntOr(IntAnd(m, 127), oc_FLAG))

\* variant of zx_value without the mask
zx_value_nomask(m) == ToULong(IntOr(m, zx_FLAG))

\* variant of zx_msr that combines base and core with | instead of +
zx_msr_or(c) == {ToULong(IntOr(zx_MSR_OC_BASE, c))}

\* variant of InvalidParameters with the core bound off by one
InvalidParameters_loose(c, m) ==
  c < zx_CORE_MIN \/ c > zx_CORE_MAX + 1 \/ m < zx_MULTI_MIN
    \/ m > zx_MULTI_MAX

\* overclock.c line 23: unsigned long msr = MSR_OC_BASE + core;
oc_msr(c) == IntSumAsULong(oc_MSR_OC_BASE, c)

\* overclock.c line 24: unsigned long value = (multiplier & 0xFF) | 0x10000;
oc_value(m) == ToULong(IntOr(IntAnd(m, oc_MASK), oc_FLAG))

\* zx.c line 10: unsigned long msr = MSR_OC_BASE + core;
zx_msr(c) == IntSumAsULong(zx_MSR_OC_BASE, c)

\* zx.c line 11: unsigned long value = (multiplier & 0xFF) | 0x10000;
zx_value(m) == ToULong(IntOr(IntAnd(m, zx_MASK), zx_FLAG))

\* zx.c line 32: the condition under which main prints "Invalid parameters!"
InvalidParameters(c, m) ==
  c < zx_CORE_MIN \/ c > zx_CORE_MAX \/ m < zx_MULTI_MIN \/ m > zx_MULTI_MAX

----------------------------------------------------------------------------
(* Events *)

CallEvent(p, c, m) ==
  [proc |-> p, call |-> calls[p] + 1, op |-> "call", a |-> c, b |-> m]

IoplEvent(p) ==
  [proc |-> p, call |-> calls[p], op |-> "iopl", a |-> IOPL_LEVEL,
   b |-> ioplRet[p]]

\* outl(v, port): the port receives the low 32 bits of v
OutlEvent(p, v, port) ==
  [proc |-> p, call |-> calls[p], op |-> "outl", a |-> ToUInt(v), b |-> port]

outl(p, v, port) ==
  /\ ports' = [ports EXCEPT ![port] = ToUInt(v)]
  /\ trace' = Append(trace, OutlEvent(p, v, port))

\* exit(code) called inside the engine, after lines were written to stderr
\* (unbuffered); exit flushes what stdout still holds
EngineExit(p, code, lines) ==
  /\ pc' = [pc EXCEPT ![p] = "exited"]
  /\ status' = [status EXCEPT ![p] = code]
  /\ term' = [term EXCEPT ![p] = "engine_exit"]
  /\ out' = [out EXCEPT ![p] = @ \o lines \o stdbuf[p]]
  /\ stdbuf' = [stdbuf EXCEPT ![p] = <<>>]

----------------------------------------------------------------------------
(* Variants of the engine steps, each with one slip *)

\* variant of oc_compute whose msr is static and accumulates over calls
oc_compute_static(p) ==
  /\ pc[p] = "entry" /\ unit[p] = "overclock.c" /\ ~win32[p]
  /\ msr' = [msr EXCEPT ![p] =
               IF calls[p] = 1 THEN Add64(oc_MSR_OC_BASE, core[p])
               ELSE Add64(BitsInt(ToUInt(@)), core[p])]
  /\ value' = [value EXCEPT ![p] =
                 ToULong(IntOr(IntAnd(multiplier[p], oc_MASK), oc_FLAG))]
  /\ pc' = [pc EXCEPT ![p] = "iopl"]
  /\ UNCHANGED <<caller, unit, win32, tty, args, parsed, core, multiplier,
                 ioplRet, calls,
                 status, term, stdbuf, out, ports,
                 trace>>

\* variant of oc_iopl that writes the index port before looking at the
\* answer of iopl
oc_iopl_late(p) ==
  /\ pc[p] = "iopl" /\ unit[p] = "overclock.c"
  /\ ports' = [ports EXCEPT ![oc_PORT_PROTECT] = ToUInt(msr[p])]
  /\ trace' = trace \o <<IoplEvent(p), OutlEvent(p, msr[p], oc_PORT_PROTECT)>>
  /\ IF ioplRet[p] < 0
     THEN EngineExit(p, EXIT_FAILURE, <<"perror: iopl">>)
     ELSE /\ pc' = [pc EXCEPT ![p] = "outl_data"]
          /\ UNCHANGED <<status, term, stdbuf, out>>
  /\ UNCHANGED <<caller, unit, win32, tty, args, parsed, core, multiplier,
                 msr, value,
                 ioplRet, calls>>

\* variant of zx_iopl that writes the index port before looking at the
\* answer of iopl
zx_iopl_late(p) ==
  /\ pc[p] = "iopl" /\ unit[p] = "zx.c"
  /\ ports' = [ports EXCEPT ![zx_PORT_PROTECT] = ToUInt(msr[p])]
  /\ trace' = trace \o <<IoplEvent(p), OutlEvent(p, msr[p], zx_PORT_PROTECT)>>
  /\ IF ioplRet[p] < 0
     THEN EngineExit(p, zx_EXIT_ENGINE, <<"perror: iopl">>)
     ELSE /\ pc' = [pc EXCEPT ![p] = "outl_data"]
          /\ UNCHANGED <<status, term, stdbuf, out>>
  /\ UNCHANGED <<caller, unit, win32, tty, args, parsed, core, multiplier,
                 msr, value,
                 ioplRet, calls>>

\* variant of oc_outl_index that sends msr to the data port
oc_outl_index_wrong_port(p) ==
  /\ pc[p] = "outl_index" /\ unit[p] = "overclock.c"
  /\ outl(p, msr[p], oc_PORT_DATA)
  /\ pc' = [pc EXCEPT ![p] = "outl_data"]
  /\ UNCHANGED <<caller, unit, win32, tty, args, parsed, core, multiplier,
                 msr, value,
                 ioplRet, calls, status, term, stdbuf, out>>

----------------------------------------------------------------------------
(* The engine of overclock.c *)

\* line 20, the _WIN32 body: MessageBoxA shows a modal dialog and waits
\* for the user
oc_messagebox(p) ==
  /\ pc[p] = "entry" /\ unit[p] = "overclock.c" /\ win32[p]
  /\ out' = [out EXCEPT ![p] =
               Append(@, "MessageBoxA: Direct I/O not supported")]
  /\ pc' = [pc EXCEPT ![p] = "dialog"]
  /\ UNCHANGED <<caller, unit, win32, tty, args, parsed, core, multiplier,
                 msr, value, ioplRet, calls, status, term, stdbuf, ports,
                 trace>>

\* line 21, the _WIN32 body: the dialog was dismissed, exit(EXIT_FAILURE)
oc_exit(p) ==
  /\ pc[p] = "dialog" /\ unit[p] = "overclock.c" /\ win32[p]
  /\ EngineExit(p, EXIT_FAILURE, <<>>)
  /\ UNCHANGED <<caller, unit, win32, tty, args, parsed, core, multiplier,
                 msr, value, ioplRet, calls, ports, trace>>

\* lines 23-24: the two locals
oc_compute(p) ==
  /\ pc[p] = "entry" /\ unit[p] = "overclock.c" /\ ~win32[p]
  /\ \E v \in oc_msr(core[p]) : msr' = [msr EXCEPT ![p] = v]
  /\ value' = [value EXCEPT ![p] = oc_value(multiplier[p])]
  /\ pc' = [pc EXCEPT ![p] = "iopl"]
  /\ UNCHANGED <<caller, unit, win32, tty, args, parsed, core, multiplier,
                 ioplRet, calls,
                 status, term, stdbuf, out, ports,
                 trace>>

\* lines 25-28: if (iopl(3) < 0) { perror("iopl"); exit(EXIT_FAILURE); }
oc_iopl(p) ==
  /\ pc[p] = "iopl" /\ unit[p] = "overclock.c"
  /\ trace' = Append(trace, IoplEvent(p))
  /\ IF ioplRet[p] < 0
     THEN EngineExit(p, EXIT_FAILURE, <<"perror: iopl">>)
     ELSE /\ pc' = [pc EXCEPT ![p] = "outl_index"]
          /\ UNCHANGED <<status, term, stdbuf, out>>
  /\ UNCHANGED <<caller, unit, win32, tty, args, parsed, core, multiplier,
                 msr, value,
                 ioplRet, calls, ports>>

\* line 29: outl(msr, PORT_PROTECT);
oc_outl_index(p) ==
  /\ pc[p] = "outl_index" /\ unit[p] = "overclock.c"
  /\ outl(p, msr[p], oc_PORT_PROTECT)
  /\ pc' = [pc EXCEPT ![p] = "outl_data"]
  /\ UNCHANGED <<caller, unit, win32, tty, args, parsed, core, multiplier,
                 msr, value,
                 ioplRet, calls, status, term, stdbuf, out>>

\* line 30: outl(value, PORT_DATA); and the function ends
oc_outl_data(p) ==
  /\ pc[p] = "outl_data" /\ unit[p] = "overclock.c"
  /\ outl(p, value[p], oc_PORT_DATA)
  /\ pc' = [pc EXCEPT ![p] = "ret"]
  /\ UNCHANGED <<caller, unit, win32, tty, args, parsed, core, multiplier,
                 msr, value,
                 ioplRet, calls, status, term, stdbuf, out>>

----------------------------------------------------------------------------
(* The engine of zx.c *)

\* lines 10-11: the two locals
zx_compute(p) ==
  /\ pc[p] = "entry" /\ unit[p] = "zx.c"
  /\ \E v \in zx_msr(core[p]) : msr' = [msr EXCEPT ![p] = v]
  /\ value' = [value EXCEPT ![p] = zx_value(multiplier[p])]
  /\ pc' = [pc EXCEPT ![p] = "iopl"]
  /\ UNCHANGED <<caller, unit, win32, tty, args, parsed, core, multiplier,
                 ioplRet, calls,
                 status, term, stdbuf, out, ports,
                 trace>>

\* lines 14-17: if (iopl(3) < 0) { perror("iopl"); exit(1); }
zx_iopl(p) ==
  /\ pc[p] = "iopl" /\ unit[p] = "zx.c"
  /\ trace' = Append(trace, IoplEvent(p))
  /\ IF ioplRet[p] < 0
     THEN EngineExit(p, zx_EXIT_ENGINE, <<"perror: iopl">>)
     ELSE /\ pc' = [pc EXCEPT ![p] = "outl_index"]
          /\ UNCHANGED <<status, term, stdbuf, out>>
  /\ UNCHANGED <<caller, unit, win32, tty, args, parsed, core, multiplier,
                 msr, value,
                 ioplRet, calls, ports>>

\* line 19: outl(msr, PORT_PROTECT);
zx_outl_index(p) ==
  /\ pc[p] = "outl_index" /\ unit[p] = "zx.c"
  /\ outl(p, msr[p], zx_PORT_PROTECT)
  /\ pc' = [pc EXCEPT ![p] = "outl_data"]
  /\ UNCHANGED <<caller, unit, win32, tty, args, parsed, core, multiplier,
                 msr, value,
                 ioplRet, calls, status, term, stdbuf, out>>

\* line 20: outl(value, PORT_DATA); and the function ends
zx_outl_data(p) ==
  /\ pc[p] = "outl_data" /\ unit[p] = "zx.c"
  /\ outl(p, value[p], zx_PORT_DATA)
  /\ pc' = [pc EXCEPT ![p] = "ret"]
  /\ UNCHANGED <<caller, unit, win32, tty, args, parsed, core, multiplier,
                 msr, value,
                 ioplRet, calls, status, term, stdbuf, out>>

----------------------------------------------------------------------------
(* main of zx.c *)

\* argc counts the program name
argc(p) == Len(args[p]) + 1

\* the engine is entered with parameters c and m
Invoke(p, c, m) ==
  /\ core' = [core EXCEPT ![p] = c]
  /\ multiplier' = [multiplier EXCEPT ![p] = m]
  /\ calls' = [calls EXCEPT ![p] = @ + 1]
  /\ trace' = Append(trace, CallEvent(p, c, m))
  /\ pc' = [pc EXCEPT ![p] = "entry"]

\* printf of a line that ends in \n: a terminal receives it at once, any
\* other stdout keeps it in the buffer
Printf(p, line) ==
  IF tty[p]
  THEN /\ out' = [out EXCEPT ![p] = Append(@, line)]
       /\ UNCHANGED stdbuf
  ELSE /\ stdbuf' = [stdbuf EXCEPT ![p] = Append(@, line)]
       /\ UNCHANGED out

\* return code from main, after printf of lines: the process ends and
\* stdout is flushed
MainReturn(p, code, lines) ==
  /\ pc' = [pc EXCEPT ![p] = "exited"]
  /\ status' = [status EXCEPT ![p] = code]
  /\ term' = [term EXCEPT ![p] = "main_return"]
  /\ out' = [out EXCEPT ![p] = @ \o stdbuf[p] \o lines]
  /\ stdbuf' = [stdbuf EXCEPT ![p] = <<>>]

\* lines 24-27: a wrong argument count
main_usage(p) ==
  /\ pc[p] = "main"
  /\ argc(p) # zx_ARGC
  /\ MainReturn(p, zx_RETURN_USAGE, <<"Usage">>)
  /\ UNCHANGED <<caller, unit, win32, tty, args, parsed, core, multiplier,
                 msr, value, ioplRet, calls, ports, trace>>

\* lines 29-35: both arguments parsed, one of them out of range
main_invalid(p) ==
  /\ pc[p] = "main"
  /\ argc(p) = zx_ARGC
  /\ \E c \in atoi(args[p][1]), m \in atoi(args[p][2]) :
       /\ InvalidParameters(c, m)
       /\ parsed' = [parsed EXCEPT ![p] = <<c, m>>]
  /\ MainReturn(p, zx_RETURN_INVALID, <<"Invalid parameters!">>)
  /\ UNCHANGED <<caller, unit, win32, tty, args, core, multiplier, msr,
                 value, ioplRet, calls, ports, trace>>

\* lines 29-38: both arguments parsed and in range: the confirmation line,
\* then the call of the engine
main_invoke(p) ==
  /\ pc[p] = "main"
  /\ argc(p) = zx_ARGC
  /\ \E c \in atoi(args[p][1]), m \in atoi(args[p][2]) :
       /\ ~InvalidParameters(c, m)
       /\ parsed' = [parsed EXCEPT ![p] = <<c, m>>]
       /\ Invoke(p, c, m)
  /\ Printf(p, "Setting core")
  /\ UNCHANGED <<caller, unit, win32, tty, args, msr, value, ioplRet, status,
                 term, ports>>

\* line 40: return 0 once the engine has returned
main_return(p) ==
  /\ pc[p] = "ret" /\ caller[p] = "main"
  /\ MainReturn(p, zx_RETURN_OK, <<>>)
  /\ UNCHANGED <<caller, unit, win32, tty, args, parsed, core, multiplier,
                 msr, value, ioplRet, calls, ports, trace>>

----------------------------------------------------------------------------
(* A foreign host calling the engine directly *)

\* what the kernel may answer to iopl(3)
IoplAnswers == {0, -1}

\* cores and multipliers a host passes: inside and outside the ranges of
\* main, down to an index below zero and up to INT_MAX
HostCores == {-410, -1, 0, 15, 16, 2147483647}
HostMults == {-1, 7, 8, 255, 264}

\* the ranges main accepts, in full
RangeCores == zx_CORE_MIN..zx_CORE_MAX
RangeMults == zx_MULTI_MIN..zx_MULTI_MAX

HostInvoke(p, c, m, r) ==
  /\ pc[p] = "host"
  /\ ioplRet' = [ioplRet EXCEPT ![p] = r]
  /\ Invoke(p, c, m)
  /\ UNCHANGED <<caller, unit, win32, tty, args, parsed, msr, value, status,
                 term, stdbuf, out, ports>>

\* a host calls the engine, up to MaxCalls times in a row
host_call(p) ==
  /\ calls[p] < MaxCalls
  /\ \E c \in HostCores, m \in HostMults, r \in IoplAnswers :
       HostInvoke(p, c, m, r)

\* a host calls the engine once, with any arguments main would accept
host_call_in_range(p) ==
  /\ calls[p] = 0
  /\ \E c \in RangeCores, m \in RangeMults, r \in IoplAnswers :
       HostInvoke(p, c, m, r)

\* a host calls the engine once, while other processes run
host_call_once(p) ==
  /\ calls[p] = 0
  /\ \E c \in HostCores, m \in HostMults, r \in IoplAnswers :
       HostInvoke(p, c, m, r)

\* the engine has returned to the host
host_resume(p) ==
  /\ pc[p] = "ret" /\ caller[p] = "host"
  /\ pc' = [pc EXCEPT ![p] = "host"]
  /\ UNCHANGED <<caller, unit, win32, tty, args, parsed, core, multiplier,
                 msr, value,
                 ioplRet, calls, status, term, stdbuf, out, ports,
                 trace>>

----------------------------------------------------------------------------
(* Initial states and specifications *)

\* argument strings given to zx, as character codes:
\* "0", "15", "16", "7", "8", "255", "256", "-1", "x", " 9", "+12", "12x",
\* "", "\n5", "\r\f\v\t9", "2147483648", "4294967304",
\* "99999999999999999999"
ArgStrings ==
  { <<48>>, <<49, 53>>, <<49, 54>>, <<55>>, <<56>>,
    <<50, 53, 53>>, <<50, 53, 54>>, <<45, 49>>, <<120>>,
    <<32, 57>>, <<43, 49, 50>>, <<49, 50, 120>>, <<>>,
    <<10, 53>>, <<13, 12, 11, 9, 57>>,
    <<50, 49, 52, 55, 52, 56, 51, 54, 52, 56>>,
    <<52, 50, 57, 52, 57, 54, 55, 51, 48, 52>>,
    <<57, 57, 57, 57, 57, 57, 57, 57, 57, 57,
      57, 57, 57, 57, 57, 57, 57, 57, 57, 57>> }

RECURSIVE SeqsUpTo(_, _)
\* the sequences over S of length at most n
SeqsUpTo(S, n) ==
  IF n = 0 THEN {<<>>}
  ELSE LET shorter == SeqsUpTo(S, n - 1)
       IN  shorter \cup {Append(s, x) : s \in shorter, x \in S}

\* the builds of the engine: zx.c includes <sys/io.h> unconditionally
Builds ==
  { <<"overclock.c", FALSE>>, <<"overclock.c", TRUE>>, <<"zx.c", FALSE>> }

\* the processes of a run: one, or two on one machine
One == {1}
Two == {1, 2}

InitCommon(P) ==
  /\ core = [p \in P |-> 0]
  /\ multiplier = [p \in P |-> 0]
  /\ msr = [p \in P |-> ZeroULong]
  /\ value = [p \in P |-> ZeroULong]
  /\ calls = [p \in P |-> 0]
  /\ status = [p \in P |-> -1]
  /\ term = [p \in P |-> "none"]
  /\ parsed = [p \in P |-> <<0, 0>>]
  /\ stdbuf = [p \in P |-> <<>>]
  /\ out = [p \in P |-> <<>>]
  /\ ports = [a \in {oc_PORT_PROTECT, oc_PORT_DATA,
                     zx_PORT_PROTECT, zx_PORT_DATA} |-> ZeroUInt]
  /\ trace = <<>>

\* one run of the zx program
InitCLI ==
  /\ InitCommon(One)
  /\ pc = [p \in One |-> "main"]
  /\ caller = [p \in One |-> "main"]
  /\ unit = [p \in One |-> "zx.c"]
  /\ win32 = [p \in One |-> FALSE]
  /\ \E a \in SeqsUpTo(ArgStrings, MaxArgs) : args = [p \in One |-> a]
  /\ \E r \in IoplAnswers : ioplRet = [p \in One |-> r]
  /\ \E t \in BOOLEAN : tty = [p \in One |-> t]

\* hosts that have loaded a build of the engine
InitHosts(P) ==
  /\ InitCommon(P)
  /\ pc = [p \in P |-> "host"]
  /\ caller = [p \in P |-> "host"]
  /\ args = [p \in P |-> <<>>]
  /\ tty = [p \in P |-> FALSE]
  /\ ioplRet = [p \in P |-> 0]

InitHost ==
  /\ InitHosts(One)
  /\ \E b \in Builds : /\ unit = [p \in One |-> b[1]]
                       /\ win32 = [p \in One |-> b[2]]

\* two hosts on one machine: the first has loaded overclock.c, the second zx.c
InitConc ==
  /\ InitHosts(Two)
  /\ unit = [p \in Two |-> IF p = 1 THEN "overclock.c" ELSE "zx.c"]
  /\ win32 = [p \in Two |-> FALSE]

oc_engine(p) ==
  \/ oc_compute(p)
  \/ oc_iopl(p)
  \/ oc_outl_index(p)
  \/ oc_outl_data(p)

zx_engine(p) ==
  \/ zx_compute(p)
  \/ zx_iopl(p)
  \/ zx_outl_index(p)
  \/ zx_outl_data(p)

NextCLI ==
  \E p \in One :
    \/ main_usage(p)
    \/ main_invalid(p)
    \/ main_invoke(p)
    \/ zx_engine(p)
    \/ main_return(p)

NextHost ==
  \E p \in One :
    \/ host_call(p)
    \/ oc_messagebox(p)
    \/ oc_exit(p)
    \/ oc_engine(p)
    \/ zx_engine(p)
    \/ host_resume(p)

NextRange ==
  \E p \in One :
    \/ host_call_in_range(p)
    \/ oc_messagebox(p)
    \/ oc_exit(p)
    \/ oc_engine(p)
    \/ zx_engine(p)
    \/ host_resume(p)

NextConc ==
  \E p \in Two :
    \/ host_call_once(p)
    \/ oc_engine(p)
    \/ zx_engine(p)
    \/ host_resume(p)

SpecCLI == InitCLI /\ [][NextCLI]_vars
SpecHost == InitHost /\ [][NextHost]_vars
SpecRange == InitHost /\ [][NextRange]_vars
SpecConc == InitConc /\ [][NextConc]_vars

----------------------------------------------------------------------------
(* Reading the trace *)

\* the events of kind op that call k of process p left, in order
EventsOf(p, k, op) ==
  SelectSeq(trace, LAMBDA e : e.proc = p /\ e.call = k /\ e.op = op)

\* the port writes of call k of process p, each as <<port, value>>
Writes(p, k) ==
  LET w == EventsOf(p, k, "outl")
  IN  [i \in 1..Len(w) |-> <<w[i].b, w[i].a>>]

\* the arguments of call k of process p, as <<core, multiplier>>
ArgsOf(p, k) ==
  LET e == EventsOf(p, k, "call")[1]
  IN  <<e.a, e.b>>

\* call k of process p ran to the end of the function
Succeeded(p, k) ==
  /\ k \in 1..calls[p]
  /\ \/ k < calls[p]
     \/ pc[p] \in {"ret", "host"}
     \/ term[p] = "main_return"

\* call k of process p ended the process from inside the engine
Failed(p, k) == k >= 1 /\ k = calls[p] /\ term[p] = "engine_exit"

\* an unsigned int below 2^31, from its number
Word(n) == <<n % 65536, n \div 65536>>

IsOutl(e, port) == e.op = "outl" /\ e.b = port
SameCall(e, f) == e.proc = f.proc /\ e.call = f.call

----------------------------------------------------------------------------
(* C1 *)

\* C1: for every core in 0..15 and multiplier in 8..255, a successful call
\* issues exactly two port writes: 0x199 + core to port 0xCF8, then
\* (multiplier AND 0xFF) OR 0x10000, which in that range is 0x10000 +
\* multiplier, to port 0xCFC; (0, 8) gives 0x199 and 0x10008, (15, 255)
\* gives 0x1A8 and 0x100FF.
C1_TwoWritesInRange ==
  \A p \in DOMAIN pc : \A k \in 1..calls[p] :
    LET c == ArgsOf(p, k)[1]
        m == ArgsOf(p, k)[2]
    IN  (Succeeded(p, k) /\ c \in 0..15 /\ m \in 8..255) =>
          /\ Writes(p, k) = << <<3320, Word(409 + c)>>,
                               <<3324, Word(65536 + m)>> >>
          /\ (c = 0 /\ m = 8) =>
               Writes(p, k) = << <<3320, Word(409)>>, <<3324, Word(65544)>> >>
          /\ (c = 15 /\ m = 255) =>
               Writes(p, k) = << <<3320, Word(424)>>, <<3324, Word(65791)>> >>

\* a successful call with core 15 and multiplier 255
C1_Witness ==
  \E p \in DOMAIN pc :
    /\ calls[p] = 1 /\ Succeeded(p, 1)
    /\ ArgsOf(p, 1) = <<15, 255>>
    /\ Len(Writes(p, 1)) = 2

----------------------------------------------------------------------------
(* C2 *)

\* C2: every data-port write is preceded by the index-port write of the
\* same call, and every port write is preceded by an iopl(3) of the same
\* call that did not return a negative value; a successful call has its
\* index-port write strictly before its data-port write.
C2_WriteOrder ==
  /\ \A i \in 1..Len(trace) :
       /\ IsOutl(trace[i], 3324) =>
            \E j \in 1..(i - 1) :
              IsOutl(trace[j], 3320) /\ SameCall(trace[j], trace[i])
       /\ trace[i].op = "outl" =>
            \E h \in 1..(i - 1) :
              /\ trace[h].op = "iopl" /\ SameCall(trace[h], trace[i])
              /\ trace[h].b >= 0
  /\ \A p \in DOMAIN pc : \A k \in 1..calls[p] :
       Succeeded(p, k) =>
         /\ Len(Writes(p, k)) = 2
         /\ Writes(p, k)[1][1] = 3320
         /\ Writes(p, k)[2][1] = 3324

\* a second successful call of one host has written both ports
C2_Witness ==
  \E p \in DOMAIN pc :
    /\ calls[p] = 2 /\ Succeeded(p, 2)
    /\ Len(Writes(p, 2)) = 2

----------------------------------------------------------------------------
(* C3 *)

\* C3: a call that ends the process instead of returning (iopl(3) answered
\* a negative value, or the unit was built for the unsupported platform)
\* has issued no port write, and every call that was refused the privilege
\* ends that way.
C3_NoWriteOnFailure ==
  \A p \in DOMAIN pc :
    /\ Failed(p, calls[p]) =>
         /\ Writes(p, calls[p]) = <<>>
         /\ win32[p] \/ ioplRet[p] < 0
    /\ \A k \in 1..calls[p] :
         (\E i \in 1..Len(trace) :
            /\ trace[i].op = "iopl" /\ trace[i].proc = p
            /\ trace[i].call = k /\ trace[i].b < 0)
         => (Failed(p, k) /\ Writes(p, k) = <<>>)
    /\ (win32[p] /\ calls[p] >= 1) =>
         /\ Writes(p, 1) = <<>>
         /\ pc[p] \notin {"entry", "dialog"} => Failed(p, 1)

\* a host whose second call was refused the privilege, after a first call
\* that wrote both ports
C3_Witness ==
  \E p \in DOMAIN pc :
    /\ calls[p] = 2 /\ Failed(p, 2)
    /\ ioplRet[p] < 0
    /\ Len(Writes(p, 1)) = 2
    /\ Writes(p, 2) = <<>>

----------------------------------------------------------------------------
(* C4 *)

\* the run was given exactly two arguments, and main has parsed the first
\* to a core in 0..15 and the second to a multiplier in 8..255
Accepted(p) ==
  /\ Len(args[p]) = 2
  /\ pc[p] # "main"
  /\ parsed[p][1] \in 0..15
  /\ parsed[p][2] \in 8..255

\* C4: main invokes the engine only on an accepted input, then with the
\* parsed values; on any other input the run ends at once with a nonzero
\* status, with no engine call, no iopl request and no port write.
C4_GuardBeforeEngine ==
  \A p \in DOMAIN pc :
    /\ (pc[p] # "main" /\ Len(args[p]) = 2) =>
         /\ parsed[p][1] \in atoi(args[p][1])
         /\ parsed[p][2] \in atoi(args[p][2])
    /\ calls[p] >= 1 =>
         /\ Accepted(p)
         /\ ArgsOf(p, 1) = parsed[p]
    /\ (~Accepted(p) /\ pc[p] # "main") =>
         /\ pc[p] = "exited" /\ status[p] # 0 /\ status[p] # -1
         /\ calls[p] = 0
         /\ trace = <<>>
         /\ ports = [a \in DOMAIN ports |-> ZeroUInt]

\* a run given core 16 and multiplier 8 has ended with status 1, untouched
C4_Witness ==
  \E p \in DOMAIN pc :
    /\ args[p] = << <<49, 54>>, <<56>> >>
    /\ parsed[p] = <<16, 8>>
    /\ pc[p] = "exited" /\ status[p] = 1
    /\ trace = <<>>

----------------------------------------------------------------------------
(* C5 *)

\* C5: between the index-port write of a call and the data-port write of
\* the same call, no other call writes a port.
C5_PortPairSerialized ==
  \A i \in 1..Len(trace) : \A l \in (i + 1)..Len(trace) :
    (/\ IsOutl(trace[i], 3320) /\ IsOutl(trace[l], 3324)
     /\ SameCall(trace[i], trace[l]))
    => \A j \in (i + 1)..(l - 1) :
         trace[j].op = "outl" => SameCall(trace[j], trace[i])

----------------------------------------------------------------------------
(* C6 *)

\* C6: the engine hands every error back to its caller: no process ends
\* from inside set_cpu_multiplier.
C6_EngineReturnsErrors ==
  \A p \in DOMAIN pc : term[p] # "engine_exit"

----------------------------------------------------------------------------
(* C7 *)

\* C7: two successful calls of one process with the same core and the same
\* multiplier, one right after the other (or further apart), issue the
\* same port writes: same ports, same values, same order.
C7_Idempotent ==
  \A p \in DOMAIN pc : \A j \in 1..calls[p] : \A k \in (j + 1)..calls[p] :
    (Succeeded(p, j) /\ Succeeded(p, k) /\ ArgsOf(p, j) = ArgsOf(p, k)) =>
      Writes(p, k) = Writes(p, j)

\* a host has called twice in succession with core 15 and multiplier 255,
\* and both calls wrote
C7_Witness ==
  \E p \in DOMAIN pc :
    /\ calls[p] = 2 /\ Succeeded(p, 2)
    /\ ArgsOf(p, 1) = <<15, 255>> /\ ArgsOf(p, 2) = <<15, 255>>
    /\ Len(Writes(p, 1)) = 2 /\ Len(Writes(p, 2)) = 2

----------------------------------------------------------------------------
(* C8 *)

\* C8: a run of zx that has ended has either status 0 and both port writes
\* behind it, index port first, or a nonzero status and no port write.
C8_AllOrNothing ==
  \A p \in DOMAIN pc :
    pc[p] = "exited" =>
      LET w == SelectSeq(trace, LAMBDA e : e.proc = p /\ e.op = "outl")
      IN  \/ /\ status[p] = 0
             /\ Len(w) = 2
             /\ w[1].b = 3320 /\ w[2].b = 3324
          \/ /\ status[p] # 0 /\ status[p] # -1
             /\ w = <<>>
             /\ ports = [a \in DOMAIN ports |-> ZeroUInt]

\* a run that printed its confirmation line, was refused the privilege and
\* ended with status 1 without a port write
C8_Witness ==
  \E p \in DOMAIN pc :
    /\ pc[p] = "exited" /\ status[p] = 1
    /\ tty[p]
    /\ out[p] = <<"Setting core", "perror: iopl">>
    /\ \A i \in 1..Len(trace) : trace[i].op # "outl"

----------------------------------------------------------------------------
(* C9 *)

\* C9: the engine never rejects on range: a call ends the process only on
\* the unsupported platform or when iopl(3) answered a negative value, and
\* every other call, whatever its core and multiplier, writes MSR_OC_BASE +
\* core, as the 32-bit value the port takes (the sum modulo 2^32), to the
\* index port and then a data value whose low 8 bits are multiplier mod
\* 256, whose bit 16 is set and whose other bits are clear; multipliers m
\* and m + 256 give the same write.
C9_NoRangeCheckInEngine ==
  \A p \in DOMAIN pc :
    /\ Failed(p, calls[p]) => (win32[p] \/ ioplRet[p] < 0)
    /\ \A k \in 1..calls[p] :
         LET c == ArgsOf(p, k)[1]
             m == ArgsOf(p, k)[2]
             sum == IF c <= 2147483647 - 409 THEN 409 + c
                    ELSE ((c - 2147483647) + 408) - 2147483647 - 1
         IN  /\ (~win32[p] /\ \E i \in 1..Len(trace) :
                    /\ trace[i].op = "iopl" /\ trace[i].proc = p
                    /\ trace[i].call = k /\ trace[i].b >= 0)
                => (~Failed(p, k))
             /\ Succeeded(p, k) =>
                  Writes(p, k) =
                    << <<3320, <<sum % 65536, (sum \div 65536) % 65536>> >>,
                       <<3324, <<m % 256, 1>> >> >>

\* a successful call with core -410 and multiplier 264: the index port
\* received 0xFFFFFFFF and the data port 0x10008
C9_Witness ==
  \E p \in DOMAIN pc :
    /\ calls[p] = 1 /\ Succeeded(p, 1)
    /\ ArgsOf(p, 1) = <<-410, 264>>
    /\ Writes(p, 1) = << <<3320, <<65535, 65535>> >>, <<3324, <<8, 1>> >> >>

----------------------------------------------------------------------------
(* C10 *)

\* the call of process p is over: it returned, or it ended the process
Over(p) == calls[p] = 1 /\ (pc[p] \in {"ret", "host", "exited"})

\* how the call of process p ended: returned, or exit with a status
Outcome(p) ==
  IF term[p] = "engine_exit" THEN <<"exit", status[p]>> ELSE <<"return", 0>>

\* C10: given the same core, the same multiplier and the same answer of
\* iopl(3), the engine of overclock.c (process 1, built without _WIN32) and
\* the engine of zx.c (process 2) issue the same port writes and end the
\* same way: a return on success, exit status 1 when refused.
C10_CopiesEquivalent ==
  (/\ Over(1) /\ Over(2)
   /\ ArgsOf(1, 1) = ArgsOf(2, 1)
   /\ ioplRet[1] = ioplRet[2])
  => /\ Writes(1, 1) = Writes(2, 1)
     /\ Outcome(1) = Outcome(2)
     /\ Outcome(1) = IF ioplRet[1] < 0 THEN <<"exit", 1>> ELSE <<"return", 0>>

\* both copies were called with core 16 and multiplier 264 and both wrote
C10_Witness ==
  /\ Over(1) /\ Over(2)
  /\ ArgsOf(1, 1) = <<16, 264>> /\ ArgsOf(2, 1) = <<16, 264>>
  /\ ioplRet[1] = 0 /\ ioplRet[2] = 0
  /\ Len(Writes(1, 1)) = 2 /\ Len(Writes(2, 1)) = 2

====
